---------------------------- MODULE Spec2Model ----------------------------
(***************************************************************************)
(* The exploration harness template (skills/philosophy/playground/         *)
(* template.py) and the plugin's registry tables (.claude-plugin/skills/   *)
(* __init__.py).                                                           *)
(*                                                                         *)
(* Standard output is the sequence of the strings handed to print, one     *)
(* element per call of print.  Standard error receives one element per     *)
(* call of traceback.print_exc.                                            *)
(*                                                                         *)
(* The template is meant to be filled in: impl[k] says what the body of    *)
(* check k does.  "template" is the body as shipped; the other bodies are  *)
(* the shipped body with its last statement, "return True", replaced by    *)
(* "return False", by a raise statement or by a call of sys.exit.          *)
(***************************************************************************)
EXTENDS Naturals, Sequences, FiniteSets, TLC

(***************************************************************************)
(* Bounds of the model.                                                    *)
(***************************************************************************)
\* the longest discoveries list a filled-in document_discoveries holds
MaxDiscoveries == 2
\* the largest argument a check passes to sys.exit
MaxExitArg == 2

(***************************************************************************)
(* Python helpers.                                                         *)
(***************************************************************************)
RECURSIVE Repeat(_, _)
\* s * n
Repeat(s, n) == IF n = 0 THEN "" ELSE s \o Repeat(s, n - 1)

\* "=" * 70
Rule == Repeat("=", 70)

(***************************************************************************)
(* UTILITIES: the lines each helper prints.                                *)
(***************************************************************************)
print_section(title) == << "\n" \o Rule, "  " \o title, Rule >>

print_subsection(title) == << "\n--- " \o title \o " ---" >>

\* the status indicator with its two cases exchanged
StatusOf_Swapped(success) == IF success THEN "[FAIL]" ELSE "[OK]"

StatusOf(success) == IF success THEN "[OK]" ELSE "[FAIL]"

print_result(success, message) == << StatusOf(success) \o " " \o message >>

(***************************************************************************)
(* Sections 1-5: the lines each check prints, as shipped.  Each one ends   *)
(* with "return True".                                                     *)
(***************************************************************************)
explore_basic_usage ==
    print_section("1. Basic Usage")
    \o << "TODO: Implement basic usage exploration" >>
    \o print_result(TRUE, "Basic usage placeholder")

explore_edge_cases ==
    print_section("2. Edge Cases")
    \o print_subsection("2.1 Empty Input")
    \o << "TODO: Test empty input behavior" >>
    \o print_subsection("2.2 Single Item")
    \o << "TODO: Test single item behavior" >>
    \o print_subsection("2.3 Large Input")
    \o << "TODO: Test large input behavior" >>
    \o print_subsection("2.4 Boundary Values")
    \o << "TODO: Test boundary values" >>
    \o print_result(TRUE, "Edge cases placeholder")

explore_error_handling ==
    print_section("3. Error Handling")
    \o print_subsection("3.1 Invalid Input Type")
    \o << "TODO: Test invalid input type handling" >>
    \o print_subsection("3.2 Invalid Value")
    \o << "TODO: Test invalid value handling" >>
    \o print_subsection("3.3 Invalid State")
    \o << "TODO: Test invalid state handling" >>
    \o print_subsection("3.4 Error Message Quality")
    \o << "TODO: Verify error message quality" >>
    \o print_result(TRUE, "Error handling placeholder")

explore_configuration ==
    print_section("4. Configuration")
    \o print_subsection("4.1 Default Configuration")
    \o << "TODO: Test default configuration" >>
    \o print_subsection("4.2 Custom Configuration")
    \o << "TODO: Test custom configuration" >>
    \o print_subsection("4.3 Invalid Configuration")
    \o << "TODO: Test invalid configuration rejection" >>
    \o print_result(TRUE, "Configuration placeholder")

explore_integration ==
    print_section("5. Integration")
    \o print_subsection("5.1 Module Interoperability")
    \o << "TODO: Test integration with related modules" >>
    \o print_subsection("5.2 Composition Pattern")
    \o << "TODO: Demonstrate composition patterns" >>
    \o print_result(TRUE, "Integration placeholder")

\* the (name, func) list of run_all_explorations
explorations ==
    << << "Basic Usage", explore_basic_usage >>,
       << "Edge Cases", explore_edge_cases >>,
       << "Error Handling", explore_error_handling >>,
       << "Configuration", explore_configuration >>,
       << "Integration", explore_integration >> >>

Checks == 1..Len(explorations)

NameOf(k) == explorations[k][1]

(***************************************************************************)
(* What a filled-in check body may do in place of "return True".           *)
(***************************************************************************)
Behaviours ==
    { "template",                  \* return True
      "return_false",              \* return False
      "raise_exception",           \* raise SomeError(message)
      "raise_unprintable",         \* raise an Exception whose __str__ raises
      "raise_keyboard_interrupt",  \* raise KeyboardInterrupt (Ctrl-C)
      "sys_exit" }                 \* sys.exit(code): raise SystemExit(code)

Messages == { "boom", "bad value" }

ExitArgs == 0..MaxExitArg

NoException == [type |-> "none", msg |-> "", code |-> 0]

\* isinstance(e, Exception): KeyboardInterrupt and SystemExit derive from
\* BaseException only
IsException(e) == e.type \in { "Exception", "Unprintable", "StrError" }

\* str(e) returns
Printable(e) == e.type # "Unprintable"

(***************************************************************************)
(* Section 6: document_discoveries.                                        *)
(***************************************************************************)
SampleDiscoveries ==
    { << "FRICTION", "Must call prepare() before every operation",
         "Auto-prepare on first use" >>,
      << "MISSING", "No batch operation support",
         "Add batch_do_thing() method" >> }

DiscoveryLists ==
    UNION { [1..n -> SampleDiscoveries] : n \in 0..MaxDiscoveries }

Guidance ==
    << "\nNo discoveries documented yet.",
       "Add discoveries as you explore the module.",
       "\nExample format:",
       "  (\"FRICTION\", \"Description of issue\", \"Proposed fix\")" >>

RECURSIVE DiscoveryLines(_)
DiscoveryLines(ds) ==
    IF ds = << >> THEN << >>
    ELSE << "\n  [" \o Head(ds)[1] \o "]",
            "    Issue: " \o Head(ds)[2],
            "    Action: " \o Head(ds)[3] >>
         \o DiscoveryLines(Tail(ds))

\* the emptiness test inverted: "if discoveries"
NoDiscoveries_Inverted(ds) == ds # << >>

\* the discoveries list is empty: "if not discoveries"
NoDiscoveries(ds) == ds = << >>

document_discoveries(ds) ==
    print_section("6. Discoveries Summary")
    \o IF NoDiscoveries(ds)
       THEN Guidance
       ELSE << "\nDiscoveries to address:" >>
            \o DiscoveryLines(ds)
            \o << "\nTotal: " \o ToString(Len(ds)) \o " discoveries" >>

(***************************************************************************)
(* run_all_explorations: the pieces of the summary.                        *)
(***************************************************************************)
Header ==
    << "\n" \o Rule,
       "  {MODULE_NAME} EXPLORATION",
       "  Interactive demonstration and discovery",
       Rule,
       "  Started: <now>" >>

\* passed = len(results): every recorded check counted as passed
CountPassed_All(rs) == Len(rs)

RECURSIVE CountPassed(_)
\* sum(1 for _, success in results if success)
CountPassed(rs) ==
    IF rs = << >> THEN 0
    ELSE (IF Head(rs)[2] THEN 1 ELSE 0) + CountPassed(Tail(rs))

SummaryStatus(success) == IF success THEN "[OK]  " ELSE "[FAIL]"

SummaryLine(r) == "  " \o SummaryStatus(r[2]) \o " " \o r[1]

ResultsLine(p, t) ==
    "\n  Results: " \o ToString(p) \o "/" \o ToString(t) \o " sections passed"

SummaryLines(rs) ==
    << "\n" \o Rule, "  EXPLORATION SUMMARY", Rule >>
    \o [n \in 1..Len(rs) |-> SummaryLine(rs[n])]
    \o << ResultsLine(CountPassed(rs), Len(rs)) >>

\* return passed > 0: one passing check is enough
AllPassed_Any(p, t) == p > 0

AllPassed(p, t) == p = t

\* the failure banner with the number of passed checks in place of the
\* number of failed ones
FinalBanner_CountsPassed(p, t) ==
    IF AllPassed(p, t)
    THEN "  ALL EXPLORATIONS PASSED"
    ELSE "  " \o ToString(p) \o " EXPLORATION(S) FAILED"

FinalBanner(p, t) ==
    IF AllPassed(p, t)
    THEN "  ALL EXPLORATIONS PASSED"
    ELSE "  " \o ToString(t - p) \o " EXPLORATION(S) FAILED"

ErrorLine(name, e) == "\n[ERROR] " \o name \o " failed with exception: " \o e.msg

TraceOf(e) == "Traceback (most recent call last): " \o e.type \o ": " \o e.msg

\* sys.exit(1 if success else 0)
ExitCode_Swapped(success) == IF success THEN 1 ELSE 0

\* sys.exit(0 if success else 1)
ExitCode(success) == IF success THEN 0 ELSE 1

\* the status of a process that dies of an exception nobody caught
UncaughtStatus(e) ==
    IF e.type = "SystemExit" THEN e.code
    ELSE IF e.type = "KeyboardInterrupt" THEN 130
    ELSE 1

(***************************************************************************)
(* Registry tables, as written in the source.  A dict literal is the list  *)
(* of its key/value items; a key written twice keeps its last value.       *)
(***************************************************************************)
\* a skill name written twice
SkillRegistry_Duplicate ==
    << "manager", "developer", "reviewer",
       "python_coding", "python_testing", "manager" >>

SkillRegistry ==
    << "manager", "developer", "reviewer",
       "python_coding", "python_testing", "workflow" >>

PhaseItems ==
    << << 0, "Discovery" >>, << 1, "Development" >>,
       << 2, "Refinement" >>, << 3, "Completion" >> >>

DecisionTypes == << "ACCEPT", "ITERATE", "ESCALATE" >>

GateItems ==
    << << "code_quality",
          << << "critical_issues", 0 >>, << "zen_compliance", 85 >>,
             << "docstring_coverage", 100 >> >> >>,
       << "testing",
          << << "scenarios_tested", 5 >>, << "runtime_errors", 0 >>,
             << "test_coverage", 80 >> >> >>,
       << "integration",
          << << "breaking_changes", 0 >>, << "patterns_followed", TRUE >> >> >>,
       << "documentation",
          << << "public_apis_documented", TRUE >>,
             << "examples_provided", 1 >> >> >> >>

\* the keys a dict literal writes, in order
KeysOf(items) == [n \in 1..Len(items) |-> items[n][1]]

\* the dict a literal builds
Dict(items) ==
    [k \in {items[n][1] : n \in 1..Len(items)} |->
        LET last == CHOOSE n \in 1..Len(items) :
                        /\ items[n][1] = k
                        /\ \A m \in 1..Len(items) : items[m][1] = k => m <= n
        IN  items[last][2]]

GateDict(items) ==
    [c \in DOMAIN Dict(items) |-> Dict(Dict(items)[c])]

VARIABLES
    impl,          \* what the body of each check does
    pc,            \* where the process is
    i,             \* the position of the for loop in explorations
    invoked,       \* the names of the checks called so far, in call order
    exc,           \* the exception in flight
    results,       \* run_all_explorations: results
    passed,        \* run_all_explorations: passed
    total,         \* run_all_explorations: total
    discoveries,   \* document_discoveries: discoveries
    out,           \* standard output, one element per print
    err,           \* standard error, one element per traceback
    success,       \* __main__: success, << >> until run_all_explorations returns
    exitStatus,    \* the process exit status, << >> while it runs
    SKILLS, PHASES, DECISIONS, DEFAULT_GATES

registry == << SKILLS, PHASES, DECISIONS, DEFAULT_GATES >>

driver == << pc, i, invoked, exc, results, passed, total, discoveries, out,
             err, success, exitStatus >>

vars == << impl, driver, registry >>

Init ==
    /\ impl \in [Checks -> Behaviours]
    /\ pc = "start"
    /\ i = 1
    /\ invoked = << >>
    /\ exc = NoException
    /\ results = << >>
    /\ passed = 0
    /\ total = 0
    /\ discoveries = << >>
    /\ out = << >>
    /\ err = << >>
    /\ success = << >>
    /\ exitStatus = << >>
    /\ SKILLS = SkillRegistry
    /\ PHASES = Dict(PhaseItems)
    /\ DECISIONS = DecisionTypes
    /\ DEFAULT_GATES = GateDict(GateItems)

(***************************************************************************)
(* run_all_explorations, step by step.                                     *)
(***************************************************************************)
\* the banner at the start, the explorations list, the empty results list
Start ==
    /\ pc = "start"
    /\ out' = out \o Header
    /\ results' = << >>
    /\ i' = 1
    /\ pc' = "loop"
    /\ UNCHANGED << impl, invoked, exc, passed, total, discoveries, err,
                    success, exitStatus, registry >>

\* for name, func in explorations: ... func() is called
CallCheck ==
    /\ pc = "loop"
    /\ i \in Checks
    /\ invoked' = Append(invoked, NameOf(i))
    /\ pc' = "in_check"
    /\ UNCHANGED << impl, i, exc, results, passed, total, discoveries, out,
                    err, success, exitStatus, registry >>

\* the body of check i runs to its return statement;
\* success = func(); results.append((name, success))
CheckReturns ==
    /\ pc = "in_check"
    /\ impl[i] \in { "template", "return_false" }
    /\ out' = out \o explorations[i][2]
    /\ results' = Append(results, << NameOf(i), impl[i] = "template" >>)
    /\ i' = i + 1
    /\ pc' = "loop"
    /\ UNCHANGED << impl, invoked, exc, passed, total, discoveries, err,
                    success, exitStatus, registry >>

\* the exception the body of a check raises in place of its return statement
Raised(b) ==
    CASE b = "raise_exception" ->
            { [type |-> "Exception", msg |-> m, code |-> 0] : m \in Messages }
      [] b = "raise_unprintable" ->
            { [type |-> "Unprintable", msg |-> "", code |-> 0] }
      [] b = "raise_keyboard_interrupt" ->
            { [type |-> "KeyboardInterrupt", msg |-> "", code |-> 0] }
      [] b = "sys_exit" ->
            { [type |-> "SystemExit", msg |-> "", code |-> c] : c \in ExitArgs }
      [] OTHER -> { }

\* the body of check i runs to its last statement, which raises
CheckRaises ==
    /\ pc = "in_check"
    /\ \E e \in Raised(impl[i]) : exc' = e
    /\ out' = out \o explorations[i][2]
    /\ pc' = "raised"
    /\ UNCHANGED << impl, i, invoked, results, passed, total, discoveries,
                    err, success, exitStatus, registry >>

\* the handler with a "break" at its end: the loop stops at the first error
HandleException_Break ==
    /\ pc = "raised"
    /\ IsException(exc)
    /\ Printable(exc)
    /\ out' = Append(out, ErrorLine(NameOf(i), exc))
    /\ err' = Append(err, TraceOf(exc))
    /\ results' = Append(results, << NameOf(i), FALSE >>)
    /\ exc' = NoException
    /\ i' = Len(explorations) + 1
    /\ pc' = "loop"
    /\ UNCHANGED << impl, invoked, passed, total, discoveries, success,
                    exitStatus, registry >>

\* the handler with a "raise" at its end: the error is reported and then
\* propagated
HandleException_Reraise ==
    /\ pc = "raised"
    /\ IsException(exc)
    /\ Printable(exc)
    /\ out' = Append(out, ErrorLine(NameOf(i), exc))
    /\ err' = Append(err, TraceOf(exc))
    /\ pc' = "uncaught"
    /\ UNCHANGED << impl, i, invoked, exc, results, passed, total,
                    discoveries, success, exitStatus, registry >>

\* the handler calling the failed check again instead of going on
HandleException_Retry ==
    /\ pc = "raised"
    /\ IsException(exc)
    /\ Printable(exc)
    /\ out' = Append(out, ErrorLine(NameOf(i), exc))
    /\ err' = Append(err, TraceOf(exc))
    /\ exc' = NoException
    /\ invoked' = Append(invoked, NameOf(i))
    /\ pc' = "in_check"
    /\ UNCHANGED << impl, i, results, passed, total, discoveries, success,
                    exitStatus, registry >>

\* except Exception as e: print the error line and the trace, record the
\* check as failed, go on with the next check
HandleException ==
    /\ pc = "raised"
    /\ IsException(exc)
    /\ Printable(exc)
    /\ out' = Append(out, ErrorLine(NameOf(i), exc))
    /\ err' = Append(err, TraceOf(exc))
    /\ results' = Append(results, << NameOf(i), FALSE >>)
    /\ exc' = NoException
    /\ i' = i + 1
    /\ pc' = "loop"
    /\ UNCHANGED << impl, invoked, passed, total, discoveries, success,
                    exitStatus, registry >>

\* except Exception as e: str(e) raises while the error line is formatted,
\* and the new exception leaves the handler
HandlerRaises ==
    /\ pc = "raised"
    /\ IsException(exc)
    /\ ~Printable(exc)
    /\ exc' = [type |-> "StrError", msg |-> "", code |-> 0]
    /\ pc' = "uncaught"
    /\ UNCHANGED << impl, i, invoked, results, passed, total, discoveries,
                    out, err, success, exitStatus, registry >>

\* the except clause does not match: the exception leaves the loop,
\* run_all_explorations and the main block
Propagate ==
    /\ pc = "raised"
    /\ ~IsException(exc)
    /\ pc' = "uncaught"
    /\ UNCHANGED << impl, i, invoked, exc, results, passed, total,
                    discoveries, out, err, success, exitStatus, registry >>

\* the loop is over: the summary, passed, total, the status lines, the tally
Summary ==
    /\ pc = "loop"
    /\ i \notin Checks
    /\ passed' = CountPassed(results)
    /\ total' = Len(results)
    /\ out' = out \o SummaryLines(results)
    /\ pc' = "discoveries"
    /\ UNCHANGED << impl, i, invoked, exc, results, discoveries, err,
                    success, exitStatus, registry >>

\* document_discoveries(): its discoveries list is a literal of the function
DocumentDiscoveries ==
    /\ pc = "discoveries"
    /\ \E ds \in DiscoveryLists :
          /\ discoveries' = ds
          /\ out' = out \o document_discoveries(ds)
    /\ pc' = "banner"
    /\ UNCHANGED << impl, i, invoked, exc, results, passed, total, err,
                    success, exitStatus, registry >>

\* the final banner; return passed == total; success = run_all_explorations()
Return ==
    /\ pc = "banner"
    /\ out' = out \o << "\n" \o Rule, FinalBanner(passed, total), Rule >>
    /\ success' = << AllPassed(passed, total) >>
    /\ pc' = "returned"
    /\ UNCHANGED << impl, i, invoked, exc, results, passed, total,
                    discoveries, err, exitStatus, registry >>

\* sys.exit(0 if success else 1)
Exit ==
    /\ pc = "returned"
    /\ exitStatus' = << ExitCode(success[1]) >>
    /\ pc' = "exited"
    /\ UNCHANGED << impl, i, invoked, exc, results, passed, total,
                    discoveries, out, err, success, registry >>

\* an exception reached the top of the main block: the interpreter ends the
\* process (a SystemExit with its code, anything else with a trace)
Die ==
    /\ pc = "uncaught"
    /\ exitStatus' = << UncaughtStatus(exc) >>
    /\ err' = IF exc.type = "SystemExit" THEN err ELSE Append(err, TraceOf(exc))
    /\ pc' = "exited"
    /\ UNCHANGED << impl, i, invoked, exc, results, passed, total,
                    discoveries, out, success, registry >>

Next ==
    \/ Start
    \/ CallCheck
    \/ CheckReturns
    \/ CheckRaises
    \/ HandleException
    \/ HandlerRaises
    \/ Propagate
    \/ Summary
    \/ DocumentDiscoveries
    \/ Return
    \/ Exit
    \/ Die

Spec == Init /\ [][Next]_vars

TypeOK ==
    /\ impl \in [Checks -> Behaviours]
    /\ pc \in { "start", "loop", "in_check", "raised", "uncaught",
                "discoveries", "banner", "returned", "exited" }
    /\ i \in 1..(Len(explorations) + 1)
    /\ Len(invoked) <= Len(explorations)
    /\ Len(results) <= Len(explorations)
    /\ passed \in 0..Len(explorations)
    /\ total \in 0..Len(explorations)
    /\ discoveries \in DiscoveryLists
    /\ success \in { << >>, << TRUE >>, << FALSE >> }
    /\ Len(exitStatus) <= 1

(***************************************************************************)
(* Vocabulary of the properties.                                           *)
(***************************************************************************)
\* line.startswith(prefix)
StartsWith(line, prefix) ==
    /\ Len(prefix) <= Len(line)
    /\ SubSeq(line, 1, Len(prefix)) = prefix

\* sub in line
Contains(line, sub) ==
    \E k \in 1..(Len(line) + 1) :
        /\ k + Len(sub) - 1 <= Len(line)
        /\ SubSeq(line, k, k + Len(sub) - 1) = sub

\* the names of the five checks in their fixed order
Names ==
    << "Basic Usage", "Edge Cases", "Error Handling", "Configuration",
       "Integration" >>

\* the process has ended
Done == pc = "exited"

\* run_all_explorations returned to the main block
Returned == success # << >>

\* the body of a check ends by raising
Raises(b) ==
    b \in { "raise_exception", "raise_unprintable",
            "raise_keyboard_interrupt", "sys_exit" }

\* the body of a check raises something the except clause does not turn into
\* a recorded failure: not an instance of Exception, or its str() raises
Escapes(b) ==
    b \in { "raise_unprintable", "raise_keyboard_interrupt", "sys_exit" }

\* every check is the shipped one
Unmodified == \A k \in Checks : impl[k] = "template"

\* check k alone is changed, to body b
OnlyModified(k, b) ==
    /\ impl[k] = b
    /\ \A j \in Checks \ {k} : impl[j] = "template"

\* check k is the only one that raises
OnlyRaiser(k) == \A j \in Checks \ {k} : ~Raises(impl[j])

\* every error line on standard output
ErrorLines == { n \in 1..Len(out) : StartsWith(out[n], "\n[ERROR]") }

\* a line is the error line of check k
IsErrorLineOf(line, k) ==
    \E m \in Messages :
        line = "\n[ERROR] " \o NameOf(k) \o " failed with exception: " \o m

\* the lines of standard output that hold "[OK]"
OkLines == { n \in 1..Len(out) : Contains(out[n], "[OK]") }

\* the final banners on standard output
BannerLines ==
    { n \in 1..Len(out) :
        out[n] \in { "  ALL EXPLORATIONS PASSED",
                     "  0 EXPLORATION(S) FAILED", "  1 EXPLORATION(S) FAILED",
                     "  2 EXPLORATION(S) FAILED", "  3 EXPLORATION(S) FAILED",
                     "  4 EXPLORATION(S) FAILED", "  5 EXPLORATION(S) FAILED" } }

(***************************************************************************)
(* C1                                                                      *)
(***************************************************************************)
\* C1 as stated: when exactly one check raises, whatever it raises, the run
\* ends with all five checks invoked, the aggregate false and exit status 1.
C1_AsStated ==
    \A k \in Checks :
        (Done /\ Raises(impl[k]) /\ OnlyRaiser(k))
        => /\ invoked = Names
           /\ success = << FALSE >>
           /\ exitStatus = << 1 >>

\* C1: when exactly one check raises, and what it raises is an instance of
\* Exception whose message can be printed, the run ends with all five checks
\* invoked in order (the checks after the raising one included), the
\* aggregate false and exit status 1.
C1_RaiseContinues ==
    \A k \in Checks :
        (Done /\ impl[k] = "raise_exception" /\ OnlyRaiser(k))
        => /\ invoked = Names
           /\ Len(results) = Len(explorations)
           /\ success = << FALSE >>
           /\ exitStatus = << 1 >>

C1_Witness ==
    /\ Done
    /\ OnlyModified(2, "raise_exception")
    /\ invoked = Names
    /\ success = << FALSE >>
    /\ exitStatus = << 1 >>

(***************************************************************************)
(* C2                                                                      *)
(***************************************************************************)
\* C2 as stated: whatever a check raises, the run ends with the driver
\* having returned a boolean and the check recorded as (name, False).
C2_AsStated ==
    Done => /\ Returned
            /\ \A k \in Checks :
                  Raises(impl[k])
                  => /\ k <= Len(results)
                     /\ results[k] = << NameOf(k), FALSE >>

\* C2: an error that is an instance of Exception and whose message can be
\* printed never leaves the driver: when the loop goes on after the check
\* that raised it, the check is recorded as (name, False), the last line on
\* standard output is "[ERROR] <name> failed with exception: <message>" and
\* one more trace is on standard error; the record stays; only a check whose
\* error escapes (not an instance of Exception, or unprintable) leaves an
\* exception uncaught; and when no check's error escapes, the driver reaches
\* the summary and returns a boolean, with one error line and one trace per
\* check that raised.
C2_ExceptionsContained ==
    LET raisers == { k \in 1..Len(results) : impl[k] = "raise_exception" }
    IN  /\ \A k \in raisers : results[k] = << NameOf(k), FALSE >>
        /\ pc \in { "loop", "discoveries", "banner", "returned" }
           => Len(err) = Cardinality(raisers)
        /\ (pc = "loop" /\ i - 1 \in raisers)
           => IsErrorLineOf(out[Len(out)], i - 1)
        /\ pc \in { "raised", "uncaught" }
           => (impl[i] = "raise_exception" <=> (exc.type = "Exception"))
        /\ pc = "uncaught" => Escapes(impl[i])
        /\ (Done /\ \A k \in Checks : ~Escapes(impl[k]))
           => /\ Returned
              /\ total = Len(explorations)
              /\ Len(results) = Len(explorations)
              /\ Cardinality(ErrorLines) = Cardinality(raisers)
              /\ \A k \in raisers :
                    \E n \in ErrorLines : IsErrorLineOf(out[n], k)

C2_Witness ==
    /\ Done
    /\ Returned
    /\ impl[1] = "raise_exception"
    /\ impl[4] = "raise_exception"
    /\ results[4] = << "Configuration", FALSE >>
    /\ Cardinality(ErrorLines) = 2
    /\ Len(err) = 2

C4_FalseWithoutError ==
    \A k \in Checks :
        (Done /\ OnlyModified(k, "return_false"))
        => /\ success = << FALSE >>
           /\ exitStatus = << 1 >>
           /\ invoked = Names
           /\ results[k] = << NameOf(k), FALSE >>
           /\ ErrorLines = { }
           /\ err = << >>

C4_Witness ==
    /\ Done
    /\ OnlyModified(3, "return_false")
    /\ results[3] = << "Error Handling", FALSE >>
    /\ invoked = Names
    /\ exitStatus = << 1 >>

(***************************************************************************)
(* C5                                                                      *)
(***************************************************************************)
\* C5 as stated: every run ends with the five checks invoked exactly once
\* each in the fixed order, whatever the earlier checks did.
C5_AsStated == Done => invoked = Names

\* C5: the checks invoked so far are always a prefix of the fixed order
\* (none retried, none skipped over, none reordered); a check is invoked
\* only when all the checks before it are over and recorded; and a run in
\* which no check's error escapes the driver ends with all five invoked.
\* After a check whose error escapes, no further check is invoked.
C5_FixedOrder ==
    /\ Len(invoked) <= Len(explorations)
    /\ invoked = SubSeq(Names, 1, Len(invoked))
    /\ pc \in { "in_check", "raised" } => Len(invoked) = Len(results) + 1
    /\ pc = "loop" => Len(invoked) = Len(results)
    /\ (Done /\ \A k \in Checks : ~Escapes(impl[k])) => invoked = Names
    /\ \A k \in Checks :
          (Done /\ Escapes(impl[k]) /\ \A j \in 1..(k - 1) : ~Escapes(impl[j]))
          => invoked = SubSeq(Names, 1, k)

C5_Witness ==
    /\ Done
    /\ impl[1] = "return_false"
    /\ impl[2] = "raise_exception"
    /\ impl[3] = "template"
    /\ invoked = Names

(***************************************************************************)
(* C6                                                                      *)
(***************************************************************************)
\* C6: the unmodified template ends with every check recorded as passed,
\* each having printed its own "[OK] ... placeholder" line, the aggregate
\* true and exit status 0.
C6_TemplatePasses ==
    (Done /\ Unmodified)
    => /\ results = [k \in Checks |-> << NameOf(k), TRUE >>]
       /\ \A k \in Checks :
             \E n \in 1..Len(out) :
                 out[n] = explorations[k][2][Len(explorations[k][2])]
                 /\ StartsWith(out[n], "[OK] ")
       /\ success = << TRUE >>
       /\ exitStatus = << 0 >>

C6_Witness ==
    /\ Done
    /\ Unmodified
    /\ passed = Len(explorations)
    /\ exitStatus = << 0 >>

(***************************************************************************)
(* C7                                                                      *)
(***************************************************************************)
\* the output of a run is: some lines holding "[OK]", n of them, then the
\* 5/5 tally, then the guidance text, then the all-passed banner
OutputShape(n) ==
    /\ Cardinality(OkLines) = n
    /\ \E r \in 1..Len(out) :
          /\ out[r] = "\n  Results: 5/5 sections passed"
          /\ \A m \in OkLines : m < r
          /\ \E g \in (r + 1)..Len(out) :
                /\ SubSeq(out, g, g + Len(Guidance) - 1) = Guidance
                /\ \E b \in (g + Len(Guidance))..Len(out) :
                      out[b] = "  ALL EXPLORATIONS PASSED"

\* C7 as stated: the unmodified harness prints exactly five "[OK]" lines,
\* then the 5/5 tally, the guidance text and the all-passed banner, and
\* exits with status 0.
C7_AsStated ==
    (Done /\ Unmodified /\ discoveries = << >>)
    => (OutputShape(5) /\ exitStatus = << 0 >>)

\* C7: the unmodified harness prints exactly ten "[OK]" lines, five
\* "[OK] <placeholder>" lines printed by the checks as they run and five
\* "  [OK]   <name>" lines of the summary, then the 5/5 tally, the guidance
\* text and the all-passed banner, and exits with status 0.
C7_TenOkLines ==
    (Done /\ Unmodified /\ discoveries = << >>)
    => /\ OutputShape(10)
       /\ Cardinality({ n \in OkLines : StartsWith(out[n], "[OK] ") }) = 5
       /\ Cardinality({ n \in OkLines : StartsWith(out[n], "  [OK]   ") }) = 5
       /\ exitStatus = << 0 >>

C7_Witness ==
    /\ Done
    /\ Unmodified
    /\ discoveries = << >>
    /\ out[Len(out) - 1] = "  ALL EXPLORATIONS PASSED"
    /\ Cardinality(OkLines) = 10

(***************************************************************************)
(* C8                                                                      *)
(***************************************************************************)
\* C8: a call of document_discoveries with an empty discoveries list prints
\* the section banner and the four guidance lines and nothing else, and
\* changes neither the results, the pass count, the total, the aggregate,
\* the exit status nor standard error; whenever the list was empty, neither
\* the "Discoveries to address:" line nor a "Total: N discoveries" line is
\* on standard output.
C8_EmptyDiscoveries ==
    /\ []((pc \in { "banner", "returned", "exited" } /\ Returned
           /\ discoveries = << >>)
          => \A n \in 1..Len(out) :
                /\ out[n] # "\nDiscoveries to address:"
                /\ ~StartsWith(out[n], "\nTotal: "))
    /\ [][(pc = "discoveries" /\ discoveries' = << >>)
          => /\ out' = out \o print_section("6. Discoveries Summary")
                           \o Guidance
             /\ UNCHANGED << results, passed, total, success, exitStatus,
                             err, invoked, impl >>]_vars

C8_Witness ==
    /\ pc = "banner"
    /\ discoveries = << >>
    /\ SubSeq(out, Len(out) - Len(Guidance) + 1, Len(out)) = Guidance
    /\ passed = 3

(***************************************************************************)
(* C9                                                                      *)
(***************************************************************************)
\* the elements of a list are pairwise distinct
Distinct(seq) == Cardinality({ seq[n] : n \in 1..Len(seq) }) = Len(seq)

\* C9: at every point of a run the four registry tables hold the values
\* they were given at import, and their entries are unique: six distinct
\* skills, phase keys exactly 0..3 each written once, three distinct
\* decisions, and four gate categories each written once with distinct
\* metric names.
C9_RegistryReadOnly ==
    /\ SKILLS = SkillRegistry
    /\ PHASES = Dict(PhaseItems)
    /\ DECISIONS = DecisionTypes
    /\ DEFAULT_GATES = GateDict(GateItems)
    /\ Len(SKILLS) = 6 /\ Distinct(SKILLS)
    /\ DOMAIN PHASES = 0..3 /\ Distinct(KeysOf(PhaseItems))
    /\ Len(DECISIONS) = 3 /\ Distinct(DECISIONS)
    /\ Cardinality(DOMAIN DEFAULT_GATES) = 4 /\ Distinct(KeysOf(GateItems))
    /\ \A n \in 1..Len(GateItems) : Distinct(KeysOf(GateItems[n][2]))

C9_Witness ==
    /\ Done
    /\ Returned
    /\ SKILLS[6] = "workflow"
    /\ PHASES[3] = "Completion"
    /\ DECISIONS[3] = "ESCALATE"
    /\ DEFAULT_GATES["testing"]["test_coverage"] = 80

(***************************************************************************)
(* C10                                                                     *)
(***************************************************************************)
\* the checks that did not pass: returned False or raised a contained error
FailedChecks ==
    { k \in Checks : impl[k] \in { "return_false", "raise_exception" } }

\* C10: during the loop the results list holds one (name, outcome) entry per
\* check that is over, in execution order; from the summary on total = 5,
\* 0 <= passed <= total and passed counts the checks that returned true; the
\* summary holds one status line per check in execution order, followed by
\* the tally; no final banner is printed up to the call of
\* document_discoveries, nor in a run the driver does not return from, and
\* exactly one is printed once the driver has returned: the all-passed one when
\* passed = total, otherwise "<total - passed> EXPLORATION(S) FAILED" with
\* total - passed >= 1 the number of checks that returned false or raised.
C10_Tally ==
    /\ pc \in { "loop", "in_check", "raised", "uncaught" }
       => Len(results) = i - 1
    /\ \A n \in 1..Len(results) :
          results[n] = << NameOf(n), impl[n] = "template" >>
    /\ pc \in { "discoveries", "banner", "returned" } \/ (Done /\ Returned)
       => /\ total = 5
          /\ passed \in 0..total
          /\ passed = Cardinality({ k \in Checks : impl[k] = "template" })
          /\ \E s \in 1..Len(out) :
                /\ out[s] = "  EXPLORATION SUMMARY"
                /\ \A n \in Checks :
                      out[s + 1 + n] =
                          "  " \o (IF results[n][2] THEN "[OK]  " ELSE "[FAIL]")
                          \o " " \o results[n][1]
                /\ out[s + 2 + total] =
                      "\n  Results: " \o ToString(passed) \o "/5 sections passed"
    /\ (pc = "banner" \/ (Done /\ ~Returned)) => BannerLines = { }
    /\ Returned
       => /\ Cardinality(BannerLines) = 1
          /\ \A b \in BannerLines :
                IF passed = total
                THEN out[b] = "  ALL EXPLORATIONS PASSED"
                ELSE /\ total - passed >= 1
                     /\ total - passed = Cardinality(FailedChecks)
                     /\ out[b] = "  " \o ToString(total - passed)
                                 \o " EXPLORATION(S) FAILED"

C10_Witness ==
    /\ Done
    /\ Returned
    /\ passed = 3
    /\ total = 5
    /\ impl[2] = "return_false"
    /\ impl[5] = "raise_exception"
    /\ out[Len(out) - 1] = "  2 EXPLORATION(S) FAILED"

=============================================================================
